---- MODULE Spec2Model ----
(***************************************************************************)
(* Display calibration toolchain: the calibration run in its three         *)
(* variants (calibrate_new.run_calibration_process,                        *)
(* auto_calibrate.run_calibration, CalibrationGUI.run_calibration_process) *)
(* and the ambient light sampler in its two variants                       *)
(* (calibration_utils.get_ambient_light_condition,                         *)
(* auto_calibrate.get_ambient_light).                                      *)
(***************************************************************************)
EXTENDS Integers, Sequences, FiniteSets, TLC

(***************************************************************************)
(* Bounds of the model.                                                    *)
(***************************************************************************)
\* the wall clock is read in ticks 0..MaxClock
MaxClock == 3
\* clock ticks per second: datetime.now() is finer than the "%S" field
TicksPerSecond == 2

\* the two calibration runs the repeated/concurrent-run claims speak about
Runs == {1, 2}
\* settings names the runs are started with
Names == {"LowLight_Profile", "MediumLight_Profile"}
Variants == {"new", "auto", "gui"}
OsNames == {"posix", "nt"}

VARIABLES
    variant,    \* which run implementation the process executes
    osName,     \* os.name of the host
    clock,      \* wall clock, in ticks
    run,        \* per calibration run: position, name, timestamp, outcomes
    sampler,    \* which ambient sampler implementation is executing
    amb,        \* the ambient light sample in progress
    sr,         \* one call of get_calibration_settings: arguments and result
    fp,         \* one find-and-apply of an existing profile
    tn,         \* one session of the live tuner (tune_display.py)
    cv,         \* one call of generate_cal_file: its state argument and curve
    gui,        \* the GUI's event thread, worker thread and widgets
    mn          \* one execution of a command-line entry point (a main)

vars == <<variant, osName, clock, run, sampler, amb, sr, fp, tn, cv, gui, mn>>
runVars == <<variant, osName, clock, run>>
ambVars == <<sampler, amb>>
setVars == <<sr>>
fastVars == <<fp>>
tuneVars == <<tn>>
curveVars == <<cv>>
guiVars == <<gui>>
uiVars == <<tn, cv, gui>>
mainVars == <<mn>>

(***************************************************************************)
(* Calibration run.                                                        *)
(***************************************************************************)

\* datetime.now().strftime("%Y%m%d_%H%M%S"): the clock cut to whole seconds
Timestamp(c) == c \div TicksPerSecond

\* f"{settings['name']}_{timestamp}"
BaseName(s) == <<s.name, s.ts>>

\* a run before run_calibration_process is entered
IdleRun(n) ==
    [pc |-> "idle", name |-> n, ts |-> -1,
     dispcal |-> "none", colprof |-> "none", icc |-> FALSE, apply |-> "none",
     result |-> "none", logged |-> {}, wrote |-> {}, invoked |-> <<>>,
     after |-> {}]

\* the run returns ret ("true"/"false") or dies with an unhandled exception
\* ("crash"), having logged the diagnostics in logs
Finish(s, ret, logs) ==
    [s EXCEPT !.pc = "done", !.result = ret, !.logged = @ \cup logs]

Invoke(s, tool) == [s EXCEPT !.invoked = Append(@, tool)]

Count(seq, x) == Cardinality({i \in DOMAIN seq : seq[i] = x})

\* outcomes of spawning an external tool: exit 0, exit non-zero,
\* FileNotFoundError (no such executable), any other OSError
ToolOutcomes == {"ok", "nonzero", "notfound", "oserror"}
\* the same for a tool addressed by the path find_binary returned
PathOutcomes == {"ok", "nonzero", "oserror"}
\* the child process was started (it ran and exited)
Ran(out) == out \in {"ok", "nonzero"}

Called(s, tool, out) == IF Ran(out) THEN Invoke(s, tool) ELSE s

(***************************************************************************)
(* Profile application (ProfileApplier), as the runs use it.               *)
(***************************************************************************)

\* argv of the primary invocations; "path" stands for the profile's path
UtilsDispwinArgv == <<"dispwin", "-d1", "-L", "path">>
AutoDispwinArgv == <<"dispwin", "-d1", "path">>
\* tune_display.apply_tuning's invocation; "path" is the temporary .cal file
TunerDispwinArgv == <<"dispwin", "-d1", "path">>

\* what dispwin is asked to do, in the words of the comment at
\* calibration_utils.py:179-181: -I installs the profile, -L loads its
\* calibration into the video LUT, a bare file name just applies (loads) it
DispwinMode(argv) ==
    IF \E i \in DOMAIN argv : argv[i] = "-I" THEN "install" ELSE "load"

\* calibration_utils.apply_icc_profile: found = find_binary("dispwin") gave a
\* path, out = outcome of running it.  calls lists the mechanisms that were
\* run; the fallback branch runs none: it logs the attempt ("FallbackAttempt")
\* and that it is skipped, with the advice to install ArgyllCMS
\* ("FallbackSkipped")
apply_icc_profile(found, out) ==
    IF ~found
    THEN [ret |-> FALSE, res |-> "notfound", calls |-> <<>>, argv |-> <<>>,
          logs |-> {"DispwinNotFound", "FallbackAttempt", "FallbackSkipped"}]
    ELSE [ret |-> out = "ok", res |-> out,
          calls |-> IF Ran(out) THEN <<"dispwin">> ELSE <<>>,
          argv |-> UtilsDispwinArgv,
          logs |-> CASE out = "ok" -> {}
                     [] out = "nonzero" -> {"ApplyFailed", "FallbackAttempt", "FallbackSkipped"}
                     [] OTHER -> {"Error", "FallbackAttempt", "FallbackSkipped"}]

\* an applier that takes any completed run of dispwin for a success
apply_profile_any_exit(out) ==
    [ret |-> Ran(out), res |-> out,
     calls |-> IF Ran(out) THEN <<"dispwin">> ELSE <<>>,
     argv |-> AutoDispwinArgv,
     logs |-> {}]

\* auto_calibrate.apply_profile: out = outcome of running "dispwin".  The
\* fallback builds an AppleScript text and runs nothing; an exception skips
\* the fallback branch altogether
apply_profile(out) ==
    [ret |-> out = "ok", res |-> out,
     calls |-> IF Ran(out) THEN <<"dispwin">> ELSE <<>>,
     argv |-> AutoDispwinArgv,
     logs |-> CASE out = "ok" -> {}
                [] out = "nonzero" -> {"ApplyFailed", "FallbackAttempt", "ManualGuidance"}
                [] OTHER -> {"Error"}]

(***************************************************************************)
(* calibrate_new.run_calibration_process                                   *)
(***************************************************************************)

\* lines 84-130: resolve both tools, derive the base name, choose the
\* session wrapper.  On a host whose os.name is not 'nt' the test at line 126
\* reads shutil, which is a local of the function (bound only by the import
\* at line 182) and the module never imports it: UnboundLocalError, outside
\* every try block.
NewStart(s, c, os, dFound, cFound) ==
    IF ~dFound \/ ~cFound
    THEN Finish([s EXCEPT !.dispcal = IF dFound THEN @ ELSE "notfound",
                          !.colprof = IF cFound THEN @ ELSE "notfound"],
                "false", {"ToolNotFound"})
    ELSE LET t == [s EXCEPT !.ts = Timestamp(c)]
         IN  IF os # "nt"
             THEN Finish(t, "crash", {})
             ELSE [t EXCEPT !.pc = "measure"]

\* lines 133-153: subprocess.call(dispcal) inside try/except Exception
NewMeasure(s, out) ==
    LET t == Called([s EXCEPT !.dispcal = out], "dispcal", out)
    IN  CASE out = "ok" -> [t EXCEPT !.pc = "profile", !.wrote = @ \cup {"cal"}]
          [] out = "nonzero" -> Finish(t, "false", {"MeasurementFailed"})
          [] OTHER -> Finish(t, "false", {"Error"})

\* lines 155-170: subprocess.check_call(colprof); only CalledProcessError is
\* caught.  icc: the tool left {base_name}.icc behind
NewProfile(s, out, icc) ==
    LET t == Called([s EXCEPT !.colprof = out], "colprof", out)
    IN  CASE out = "ok" ->
               [t EXCEPT !.pc = "finalize", !.icc = icc,
                         !.wrote = IF icc THEN @ \cup {"icc"} ELSE @]
          [] out = "nonzero" -> Finish(t, "false", {"ProfileGenerationFailed"})
          [] OTHER -> Finish(t, "crash", {})

\* lines 172-190, 202-205: reports directory (outside the try), existence of
\* the artifact, archive copy and report.  mk, cp, rep: os.makedirs,
\* shutil.copy2 and the report's write succeed
NewFinalize(s, mk, cp, rep) ==
    CASE ~mk -> Finish(s, "crash", {})
      [] mk /\ ~s.icc -> Finish(s, "false", {})
      [] mk /\ s.icc /\ ~cp -> Finish(s, "false", {"Error"})
      [] mk /\ s.icc /\ cp /\ ~rep ->
           Finish([s EXCEPT !.wrote = @ \cup {"archive"}], "false", {"Error"})
      [] OTHER -> [s EXCEPT !.wrote = @ \cup {"archive", "report"},
                            !.pc = "apply"]

\* lines 192-205: the run's answer is apply_icc_profile's
NewApply(s, found, out) ==
    LET a == apply_icc_profile(found, out)
    IN  Finish([s EXCEPT !.apply = a.res, !.invoked = @ \o a.calls],
               IF a.ret THEN "true" ELSE "false", a.logs)

(***************************************************************************)
(* auto_calibrate.run_calibration                                          *)
(***************************************************************************)

\* lines 233-268
AutoStart(s, c) == [s EXCEPT !.ts = Timestamp(c), !.pc = "measure"]

\* AutoMeasure without the test of the exit code at line 273
AutoMeasureIgnoringExit(s, out) ==
    LET t == Called([s EXCEPT !.dispcal = out], "dispcal", out)
    IN  CASE Ran(out) -> [t EXCEPT !.pc = "profile", !.wrote = @ \cup {"cal"}]
          [] out = "notfound" -> Finish(t, "false", {"ToolNotFound"})
          [] OTHER -> Finish(t, "false", {"Error"})

\* lines 271-273, 304-313
AutoMeasure(s, out) ==
    LET t == Called([s EXCEPT !.dispcal = out], "dispcal", out)
    IN  CASE out = "ok" -> [t EXCEPT !.pc = "profile", !.wrote = @ \cup {"cal"}]
          [] out = "nonzero" -> Finish(t, "false", {"MeasurementFailed"})
          [] out = "notfound" -> Finish(t, "false", {"ToolNotFound"})
          [] OTHER -> Finish(t, "false", {"Error"})

\* AutoProfile running colprof again after a non-zero exit
AutoProfileRetrying(s, out, icc) ==
    LET t == Called([s EXCEPT !.colprof = out], "colprof", out)
    IN  CASE out = "ok" ->
               [t EXCEPT !.pc = "finalize", !.icc = icc,
                         !.wrote = IF icc THEN @ \cup {"icc"} ELSE @]
          [] out = "nonzero" -> [t EXCEPT !.pc = "profile"]
          [] out = "notfound" -> Finish(t, "false", {"ToolNotFound"})
          [] OTHER -> Finish(t, "false", {"Error"})

\* lines 276-291, 301-303, 308-313
AutoProfile(s, out, icc) ==
    LET t == Called([s EXCEPT !.colprof = out], "colprof", out)
    IN  CASE out = "ok" ->
               [t EXCEPT !.pc = "finalize", !.icc = icc,
                         !.wrote = IF icc THEN @ \cup {"icc"} ELSE @]
          [] out = "nonzero" -> Finish(t, "false", {"ProfileGenerationFailed"})
          [] out = "notfound" -> Finish(t, "false", {"ToolNotFound"})
          [] OTHER -> Finish(t, "false", {"Error"})

\* lines 292-300: a missing artifact is logged as a warning and the run
\* still returns True
AutoFinalize(s) ==
    IF s.icc
    THEN [s EXCEPT !.pc = "apply"]
    ELSE Finish(s, "true", {"ArtifactMissing"})

\* lines 297, 300: apply_profile's answer is dropped
AutoApply(s, out) ==
    LET a == apply_profile(out)
    IN  Finish([s EXCEPT !.apply = a.res, !.invoked = @ \o a.calls],
               "true", a.logs)

(***************************************************************************)
(* CalibrationGUI.run_calibration_process (the worker's body)              *)
(***************************************************************************)

\* lines 352-402: parsed = the float()/int() conversions of the form's text
\* fields succeed
GuiStart(s, c, parsed) ==
    IF ~parsed
    THEN Finish(s, "false", {"Error"})
    ELSE [s EXCEPT !.ts = Timestamp(c), !.pc = "measure"]

\* lines 404-407, 438-466
GuiMeasure(s, out) ==
    LET t == Called([s EXCEPT !.dispcal = out], "dispcal", out)
    IN  CASE out = "ok" -> [t EXCEPT !.pc = "profile", !.wrote = @ \cup {"cal"}]
          [] out = "nonzero" -> Finish(t, "false", {"MeasurementFailed"})
          [] out = "notfound" -> Finish(t, "false", {"ToolNotFound"})
          [] OTHER -> Finish(t, "false", {"Error"})

\* lines 410-437, 452-466: a zero exit of colprof is reported as success;
\* the artifact is neither looked for nor applied
GuiProfile(s, out, icc) ==
    LET t == Called([s EXCEPT !.colprof = out], "colprof", out)
    IN  CASE out = "ok" ->
               Finish([t EXCEPT !.icc = icc,
                                !.wrote = IF icc THEN @ \cup {"icc"} ELSE @],
                      "true", {})
          [] out = "nonzero" -> Finish(t, "false", {"ProfileGenerationFailed"})
          [] out = "notfound" -> Finish(t, "false", {"ToolNotFound"})
          [] OTHER -> Finish(t, "false", {"Error"})

(***************************************************************************)
(* Actions of the calibration runs.                                        *)
(***************************************************************************)

At(r, v, p) == variant = v /\ run[r].pc = p

\* the runs that had already returned when r was entered
Entered(r, s) == [s EXCEPT !.after = {q \in Runs : run[q].pc = "done"}]

Step(r, s) == run' = [run EXCEPT ![r] = s] /\ UNCHANGED <<variant, osName, clock, ambVars, setVars, fastVars, uiVars, mainVars>>

Tick ==
    /\ clock < MaxClock
    /\ clock' = clock + 1
    /\ UNCHANGED <<variant, osName, run, ambVars, setVars, fastVars, uiVars, mainVars>>

\* datetime.now() is naive local time: the reading can step back (end of
\* daylight saving time, a clock correction)
ClockSetBack ==
    /\ clock > 0
    /\ clock' = clock - 1
    /\ UNCHANGED <<variant, osName, run, ambVars, setVars, fastVars, uiVars, mainVars>>

NewRunStart(r) ==
    /\ At(r, "new", "idle")
    /\ \E dFound, cFound \in BOOLEAN :
         Step(r, NewStart(Entered(r, run[r]), clock, osName, dFound, cFound))

NewRunMeasure(r) ==
    /\ At(r, "new", "measure")
    /\ \E out \in PathOutcomes : Step(r, NewMeasure(run[r], out))

NewRunProfile(r) ==
    /\ At(r, "new", "profile")
    /\ \E out \in PathOutcomes, icc \in BOOLEAN :
         /\ (icc => out = "ok")
         /\ Step(r, NewProfile(run[r], out, icc))

NewRunFinalize(r) ==
    /\ At(r, "new", "finalize")
    /\ \E mk, cp, rep \in BOOLEAN : Step(r, NewFinalize(run[r], mk, cp, rep))

NewRunApply(r) ==
    /\ At(r, "new", "apply")
    /\ \E found \in BOOLEAN, out \in PathOutcomes :
         Step(r, NewApply(run[r], found, out))

AutoRunStart(r) ==
    /\ At(r, "auto", "idle")
    /\ Step(r, AutoStart(Entered(r, run[r]), clock))

AutoRunMeasure(r) ==
    /\ At(r, "auto", "measure")
    /\ \E out \in ToolOutcomes : Step(r, AutoMeasure(run[r], out))

AutoRunProfile(r) ==
    /\ At(r, "auto", "profile")
    /\ \E out \in ToolOutcomes, icc \in BOOLEAN :
         /\ (icc => out = "ok")
         /\ Step(r, AutoProfile(run[r], out, icc))

AutoRunFinalize(r) ==
    /\ At(r, "auto", "finalize")
    /\ Step(r, AutoFinalize(run[r]))

AutoRunApply(r) ==
    /\ At(r, "auto", "apply")
    /\ \E out \in ToolOutcomes : Step(r, AutoApply(run[r], out))

GuiRunStart(r) ==
    /\ At(r, "gui", "idle")
    /\ \E parsed \in BOOLEAN : Step(r, GuiStart(Entered(r, run[r]), clock, parsed))

GuiRunMeasure(r) ==
    /\ At(r, "gui", "measure")
    /\ \E out \in ToolOutcomes : Step(r, GuiMeasure(run[r], out))

GuiRunProfile(r) ==
    /\ At(r, "gui", "profile")
    /\ \E out \in ToolOutcomes, icc \in BOOLEAN :
         /\ (icc => out = "ok")
         /\ Step(r, GuiProfile(run[r], out, icc))

RunNext ==
    \/ Tick
    \/ ClockSetBack
    \/ \E r \in Runs : NewRunStart(r)
    \/ \E r \in Runs : NewRunMeasure(r)
    \/ \E r \in Runs : NewRunProfile(r)
    \/ \E r \in Runs : NewRunFinalize(r)
    \/ \E r \in Runs : NewRunApply(r)
    \/ \E r \in Runs : AutoRunStart(r)
    \/ \E r \in Runs : AutoRunMeasure(r)
    \/ \E r \in Runs : AutoRunProfile(r)
    \/ \E r \in Runs : AutoRunFinalize(r)
    \/ \E r \in Runs : AutoRunApply(r)
    \/ \E r \in Runs : GuiRunStart(r)
    \/ \E r \in Runs : GuiRunMeasure(r)
    \/ \E r \in Runs : GuiRunProfile(r)

(***************************************************************************)
(* Ambient light sampler.                                                  *)
(***************************************************************************)

Samplers == {"utils", "auto"}
Hours == 0..23
\* illuminance values the reading tool may print
LuxReadings == {0, 5, 9, 10, 50, 99, 100, 500}
\* what one detection method makes of its inventory: a sensor name is in
\* the output, it is not, or running the command raises
ProbeOutcomes == {"match", "nomatch", "raise"}
\* what asking spotread for a reading ends in, apart from a parsed value:
\* tool not installed, spawning it raises, subprocess.TimeoutExpired, output
\* matching neither pattern, a matched text float() rejects (such as "1.2.3")
ReadFailures == {"notool", "oserror", "timeout", "noparse", "malformed"}

\* no ambient sample is in progress
AmbIdle == [pc |-> "off"]

\* a sample about to start: check_spyder5_connected is entered with retries
AmbBegin(retries) ==
    [pc |-> "check", retries |-> retries, attempt |-> 0, sleeps |-> 0,
     detected |-> FALSE, read |-> "none", lux |-> -1, spotread |-> 0,
     hour |-> -1, cond |-> "none", raised |-> FALSE]

\* calibration_utils.get_ambient_light_condition calls
\* check_spyder5_connected(retries=1); auto_calibrate.main calls its own
\* check_spyder5_connected() with the default retries=3
RetriesOf(v) == IF v = "utils" THEN 1 ELSE 3

\* one pass of the loop body of calibration_utils.check_spyder5_connected:
\* m1 = system_profiler, m2 = ioreg (consulted only when m1 does not match)
UtilsAttemptDetects(m1, m2) == m1 = "match" \/ (m1 = "nomatch" /\ m2 = "match")

\* one pass of the loop body of auto_calibrate.check_spyder5_connected
AutoAttemptDetects(m1) == m1 = "match"

\* the loop around the attempts: return True at the first detection, sleep
\* between attempts only, give up after `retries` of them
AfterAttempt(a, found) ==
    IF found
    THEN [a EXCEPT !.detected = TRUE, !.attempt = @ + 1, !.pc = "checked"]
    ELSE LET b == [a EXCEPT !.attempt = @ + 1,
                            !.sleeps = IF a.attempt < a.retries - 1
                                       THEN @ + 1 ELSE @]
         IN  IF b.attempt < b.retries THEN b ELSE [b EXCEPT !.pc = "checked"]

\* get_ambient_lux without the except clauses around float()
get_ambient_lux_uncaught(read, v) ==
    IF read = "value"
    THEN [ret |-> v, raised |-> FALSE]
    ELSE [ret |-> -1, raised |-> read = "malformed"]

\* get_ambient_lux (both files): the value returned for what the reading ended
\* in; every exception is caught inside and becomes None
get_ambient_lux(read, v) ==
    IF read = "value"
    THEN [ret |-> v, raised |-> FALSE]
    ELSE [ret |-> -1, raised |-> FALSE]

\* spotread was started (it ran to its end or into the timeout)
SpotreadRan(read) == read \in {"value", "timeout", "noparse", "malformed"}

\* the thresholds with closed upper ends (<= in place of <)
ClassifyClosed(lux) ==
    IF lux <= 10 THEN "low" ELSE IF lux <= 100 THEN "medium" ELSE "high"

\* lux thresholds of the two samplers
Classify(lux) ==
    IF lux < 10 THEN "low" ELSE IF lux < 100 THEN "medium" ELSE "high"

\* the estimate with the evening kept through hour 20
TimeOfDayLateEvening(h) ==
    IF 6 <= h /\ h < 9 THEN "high"
    ELSE IF 9 <= h /\ h < 17 THEN "high"
    ELSE IF 17 <= h /\ h <= 20 THEN "medium"
    ELSE "low"

\* the time-of-day estimate of the two samplers
TimeOfDay(h) ==
    IF 6 <= h /\ h < 9 THEN "high"
    ELSE IF 9 <= h /\ h < 17 THEN "high"
    ELSE IF 17 <= h /\ h < 20 THEN "medium"
    ELSE "low"

\* get_ambient_light_condition asking for the reading whatever the check said
UtilsAfterCheckAlwaysRead(a) == [a EXCEPT !.pc = "read"]

\* calibration_utils.get_ambient_light_condition, line 149: the reading is
\* asked for only when the device was detected
UtilsAfterCheck(a) ==
    IF a.detected THEN [a EXCEPT !.pc = "read"] ELSE [a EXCEPT !.pc = "fallback"]

\* auto_calibrate.main, lines 358-363: without the device the process exits
\* with status 1 before get_ambient_light is called
AutoAfterCheck(a) ==
    IF a.detected THEN [a EXCEPT !.pc = "read"] ELSE [a EXCEPT !.pc = "exit1"]

\* a sampler that asks spotread again after a timeout or unparseable output
AfterReadRetrying(a, read, v) ==
    LET l == get_ambient_lux(read, v)
        b == [a EXCEPT !.read = read, !.lux = l.ret,
                       !.spotread = IF SpotreadRan(read) THEN @ + 1 ELSE @]
    IN  IF l.ret # -1
        THEN [b EXCEPT !.pc = "done", !.cond = Classify(l.ret)]
        ELSE IF read \in {"timeout", "noparse"} /\ a.spotread = 0
             THEN [b EXCEPT !.pc = "read"]
             ELSE [b EXCEPT !.pc = "fallback"]

\* the body of both samplers from the reading on: classify a value, fall
\* through to the time of day on None
AfterRead(a, read, v) ==
    LET l == get_ambient_lux(read, v)
        b == [a EXCEPT !.read = read, !.lux = l.ret,
                       !.spotread = IF SpotreadRan(read) THEN @ + 1 ELSE @]
    IN  IF l.raised
        THEN [b EXCEPT !.pc = "done", !.raised = TRUE]
        ELSE IF l.ret # -1
             THEN [b EXCEPT !.pc = "done", !.cond = Classify(l.ret)]
             ELSE [b EXCEPT !.pc = "fallback"]

AfterFallback(a, h) == [a EXCEPT !.pc = "done", !.hour = h, !.cond = TimeOfDay(h)]

AmbStep(a) == amb' = a /\ UNCHANGED <<sampler, runVars, setVars, fastVars, uiVars, mainVars>>

UtilsCheckAttempt ==
    /\ sampler = "utils" /\ amb.pc = "check"
    /\ \E m1, m2 \in ProbeOutcomes :
         AmbStep(AfterAttempt(amb, UtilsAttemptDetects(m1, m2)))

AutoCheckAttempt ==
    /\ sampler = "auto" /\ amb.pc = "check"
    /\ \E m1 \in ProbeOutcomes : AmbStep(AfterAttempt(amb, AutoAttemptDetects(m1)))

UtilsChecked ==
    /\ sampler = "utils" /\ amb.pc = "checked"
    /\ AmbStep(UtilsAfterCheck(amb))

AutoChecked ==
    /\ sampler = "auto" /\ amb.pc = "checked"
    /\ AmbStep(AutoAfterCheck(amb))

ReadLux ==
    /\ amb.pc = "read"
    /\ \/ \E f \in ReadFailures : AmbStep(AfterRead(amb, f, -1))
       \/ \E v \in LuxReadings : AmbStep(AfterRead(amb, "value", v))

Fallback ==
    /\ amb.pc = "fallback"
    /\ \E h \in Hours : AmbStep(AfterFallback(amb, h))

AmbNext ==
    \/ UtilsCheckAttempt
    \/ AutoCheckAttempt
    \/ UtilsChecked
    \/ AutoChecked
    \/ ReadLux
    \/ Fallback

(***************************************************************************)
(* Settings resolver (get_calibration_settings).                           *)
(***************************************************************************)

\* an optional command-line value: <<>> is None, <<v>> is the value v
None == <<>>
Some(v) == <<v>>

Resolvers == {"new", "auto"}
\* "dusk" stands for any value that is no key of the settings table
Conditions == {"low", "medium", "high", "dusk"}
\* gamma is counted in tenths (22 is 2.2)
GammaArgs == {None, Some(0), Some(24)}
WhitePointArgs == {None, Some(0), Some(6000)}
BrightnessArgs == {None, Some(0), Some(110)}
NameArgs == {None, Some(""), Some("Custom")}
\* --red/--green/--blue, percent; argparse supplies 0 when the option is absent
Adjustments == {-5, 0, 10}

\* the settings table of both files (icc_file is in auto_calibrate's only)
SettingsTable(c) ==
    CASE c = "low" ->
           [gamma |-> 22, white_point |-> 5500, brightness |-> 80,
            name |-> "LowLight_Profile", icc_file |-> "LowLight_Profile.icc"]
      [] c = "high" ->
           [gamma |-> 22, white_point |-> 6500, brightness |-> 120,
            name |-> "HighLight_Profile", icc_file |-> "HighLight_Profile.icc"]
      [] OTHER ->
           [gamma |-> 22, white_point |-> 6500, brightness |-> 100,
            name |-> "MediumLight_Profile", icc_file |-> "MediumLight_Profile.icc"]

\* a lookup that takes the first row for an unknown condition
BaseRowFirst(c) ==
    IF c \in {"medium", "high"} THEN SettingsTable(c) ELSE SettingsTable("low")

\* settings.get(condition, settings["medium"])
BaseRow(c) ==
    IF c \in {"low", "medium", "high"} THEN SettingsTable(c) ELSE SettingsTable("medium")

\* Python truth of an optional number / an optional string
TruthyNum(o) == o # None /\ o[1] # 0
TruthyStr(o) == o # None /\ o[1] # ""

\* calibrate_new.get_calibration_settings: "x if x else base" on every field
\* (red, green, blue are its red_adj, green_adj, blue_adj and auto_calibrate's
\* red_adjustment, green_adjustment, blue_adjustment)
NewSettings(c, args) ==
    LET base == BaseRow(c)
    IN  [gamma |-> IF TruthyNum(args.gamma) THEN args.gamma[1] ELSE base.gamma,
         white_point |-> IF TruthyNum(args.white_point)
                         THEN args.white_point[1] ELSE base.white_point,
         brightness |-> IF TruthyNum(args.brightness)
                        THEN args.brightness[1] ELSE base.brightness,
         name |-> IF TruthyStr(args.profile_name)
                  THEN args.profile_name[1] ELSE base.name,
         quality |-> "m",
         red |-> args.red, green |-> args.green, blue |-> args.blue]

\* auto_calibrate.get_calibration_settings: "is not None" on the numbers,
\* truth on the name
AutoSettings(c, args) ==
    LET base == BaseRow(c)
    IN  [gamma |-> IF args.gamma # None THEN args.gamma[1] ELSE base.gamma,
         white_point |-> IF args.white_point # None
                         THEN args.white_point[1] ELSE base.white_point,
         brightness |-> IF args.brightness # None
                        THEN args.brightness[1] ELSE base.brightness,
         name |-> IF TruthyStr(args.profile_name)
                  THEN args.profile_name[1] ELSE base.name,
         icc_file |-> base.icc_file,
         red |-> args.red, green |-> args.green, blue |-> args.blue]

get_calibration_settings(impl, c, args) ==
    IF impl = "new" THEN NewSettings(c, args) ELSE AutoSettings(c, args)

ArgSets ==
    [gamma : GammaArgs, white_point : WhitePointArgs,
     brightness : BrightnessArgs, profile_name : NameArgs,
     red : Adjustments, green : Adjustments, blue : Adjustments]

\* no call of the resolver is in progress
SrIdle == [pc |-> "off"]

ResolveSettings ==
    /\ sr.pc = "args"
    /\ sr' = [sr EXCEPT !.pc = "resolved",
                        !.out = Some(get_calibration_settings(sr.impl, sr.cond, sr.args))]
    /\ UNCHANGED <<runVars, ambVars, fastVars, uiVars, mainVars>>

SetNext == ResolveSettings

(***************************************************************************)
(* Finding and applying an existing profile: apply_profile.py main and     *)
(* auto_calibrate.py main with --apply-only.                               *)
(***************************************************************************)

Appliers == {"utils", "auto"}
\* the three places searched: --profile-dir or the working directory, the
\* user's ColorSync folder, the system's ColorSync folder
Locations == {"local", "user", "system"}
candidates == <<"local", "user", "system">>
\* what is at a candidate path
PathKinds == {"absent", "file", "dir"}
\* PROFILES / the icc_file of the settings row
ProfileFile(c) == SettingsTable(c).icc_file

\* os.path.exists: true of a directory as of a file
Exists(kind) == kind # "absent"

\* a search that keeps the last existing candidate
LocateLast(cands, fs) ==
    LET hits == {i \in DOMAIN cands : Exists(fs[cands[i]])}
    IN  IF hits = {} THEN "none"
        ELSE cands[CHOOSE i \in hits : \A j \in hits : j <= i]

\* the for loop with break: the first candidate that exists, else None
Locate(cands, fs) ==
    LET hits == {i \in DOMAIN cands : Exists(fs[cands[i]])}
    IN  IF hits = {} THEN "none"
        ELSE cands[CHOOSE i \in hits : \A j \in hits : i <= j]

NoApply == [ret |-> FALSE, res |-> "none", calls |-> <<>>, argv |-> <<>>, logs |-> {}]

\* no find-and-apply is in progress
FpIdle == [pc |-> "off"]

FpBegin(impl, c, fs) ==
    [pc |-> "locate", impl |-> impl, cond |-> c, file |-> ProfileFile(c),
     fs0 |-> fs, fs |-> fs, found |-> "none", spawn |-> "none",
     applied |-> NoApply, logged |-> {}]

FpStep(f) == fp' = f /\ UNCHANGED <<runVars, ambVars, setVars, uiVars, mainVars>>

\* apply_profile.py:53-57, 67-70 and auto_calibrate.py:389-393, 403-406
LocateProfile ==
    /\ fp.pc = "locate"
    /\ LET hit == Locate(candidates, fp.fs)
       IN  FpStep([fp EXCEPT !.found = hit,
                             !.pc = IF hit = "none" THEN "exit1" ELSE "found",
                             !.logged = IF hit = "none" THEN {"ProfileNotFound"} ELSE {}])

\* spawn is what became of the attempt to run dispwin
FpApplied(a, spawn) ==
    [fp EXCEPT !.applied = a, !.spawn = spawn,
               !.pc = IF a.ret THEN "exit0" ELSE "exit1",
               !.logged = a.logs \cup (IF a.ret THEN {} ELSE {"ApplyError"})]

\* apply_profile.py:59-66
UtilsApplyFound ==
    /\ fp.pc = "found" /\ fp.impl = "utils"
    /\ \E found \in BOOLEAN, out \in PathOutcomes :
          FpStep(FpApplied(apply_icc_profile(found, out),
                           IF found THEN out ELSE "notfound"))

\* auto_calibrate.py:395-402
AutoApplyFound ==
    /\ fp.pc = "found" /\ fp.impl = "auto"
    /\ \E out \in ToolOutcomes : FpStep(FpApplied(apply_profile(out), out))

FastNext == LocateProfile \/ UtilsApplyFound \/ AutoApplyFound

(***************************************************************************)
(* Live tuner (tune_display.py).  Its file and process operations are      *)
(* taken to complete; what becomes of the ones that raise is the subject   *)
(* of SpawnFailureIsHandled.                                               *)
(***************************************************************************)

\* keystrokes read in one session
MaxKeys == 7

\* The four fields are Python floats (IEEE doubles) changed by += and -= of
\* STEP_SIZE = 0.01.  In units of 2^-53 the double 0.01 is U + 59/64 with
\* U = 90071992547409, an odd number.  A field value between 0.5 and 2 is
\* held as [k, c], standing for the double 1 + (k * U + c) * 2^-53: k is the
\* net number of steps taken and c what the roundings have added up to.
StepSixtyFourths == 59

Fl(k, c) == [k |-> k, c |-> c]

Abs(n) == IF n < 0 THEN -n ELSE n

\* [k, e] is a double: below 1.0 every multiple of 2^-53 is one, from 1.0 on
\* only the even multiples are (U is odd, so k * U + e is even iff k + e is)
Representable(k, e) ==
    \/ k < 0
    \/ k = 0 /\ e < 0
    \/ (k + e) % 2 = 0

\* v + d * STEP_SIZE for d = 1 or -1, rounded to the nearest double
FlStep(v, d) ==
    LET k2 == v.k + d
        t == 64 * v.c + d * StepSixtyFourths
        cands == {e \in (v.c - 2)..(v.c + 2) : Representable(k2, e)}
    IN  Fl(k2, CHOOSE e \in cands : \A f \in cands : Abs(64 * e - t) <= Abs(64 * f - t))

\* the double nearest to the decimal 1 + n/100 (0.01 is 0.92 units above U)
FlDecimal(n) ==
    LET cands == {e \in (n - 2)..(n + 2) : Representable(n, e)}
    IN  Fl(n, CHOOSE e \in cands : \A f \in cands : Abs(100 * e - 92 * n) <= Abs(100 * f - 92 * n))

\* what the format {:.2f} shows of a field, in hundredths
Hundredths(v) == 100 + v.k

Fields == {"red", "green", "blue", "gain"}
AdjustKeys == {"r", "R", "g", "G", "b", "B", "w", "W"}
\* "" is what getch returns at end of input
Keys == AdjustKeys \cup {"s", "S", "q", "x", "Q", "X", "z", ""}
\* what the user types at the export prompt
NameInputs == {"", "  ", "MyTune", " MyTune "}

\* str.lower on one key
Lower(key) ==
    CASE key = "R" -> "r" [] key = "G" -> "g" [] key = "B" -> "b"
      [] key = "W" -> "w" [] key = "S" -> "s" [] key = "Q" -> "q"
      [] key = "X" -> "x" [] OTHER -> key

\* str.strip on the typed name
Strip(raw) ==
    CASE raw = "  " -> "" [] raw = " MyTune " -> "MyTune" [] OTHER -> raw

KeyField(key) ==
    CASE Lower(key) = "r" -> "red" [] Lower(key) = "g" -> "green"
      [] Lower(key) = "b" -> "blue" [] OTHER -> "gain"

\* lines 23-28
state == [f \in Fields |-> Fl(0, 0)]

\* no tuner session is in progress
TnIdle == [pc |-> "off"]

\* a session at the entry of main: found is what find_binary("dispwin") gives.
\* net counts, per field, increase keys minus decrease keys read; gens counts
\* the curves generated to the temporary file; calls lists the dispwin
\* invocations ("load" of a curve file, "clear" for -c); lut is what the
\* display's video LUT holds when dispwin does as asked.  inflight holds the
\* dispwin processes started and not yet exited; loaded counts the loads
\* that have exited and latest is the generation of the last of them
TnBegin(found) ==
    [pc |-> "start", dispwin |-> found, state |-> state,
     net |-> [f \in Fields |-> 0], keys |-> 0, last |-> "none",
     gens |-> 0, calls |-> <<>>, tmp |-> [kind |-> "none"],
     lut |-> [kind |-> "prior"], end |-> "none", exported |-> [kind |-> "none"],
     inflight |-> {}, loaded |-> 0, latest |-> 0]

\* a dispwin process: n is the generation of the curve file it was given
\* (0 for the clear), s the state the file was generated from
Job(call, n, s) == [call |-> call, n |-> n, s |-> s]

\* an apply that starts dispwin and returns without waiting for its exit
apply_tuning_detached(t) ==
    LET g == [t EXCEPT !.gens = @ + 1, !.tmp = [kind |-> "cal", s |-> t.state]]
    IN  IF t.dispwin
        THEN [g EXCEPT !.calls = Append(@, "load"),
                       !.inflight = @ \cup {Job("load", g.gens, t.state)},
                       !.pc = "read"]
        ELSE [g EXCEPT !.pc = "read"]

\* lines 75-82, up to the start of dispwin: subprocess.run returns when the
\* process has exited ("wait"); print_status and the next getch() follow
apply_tuning(t) ==
    LET g == [t EXCEPT !.gens = @ + 1, !.tmp = [kind |-> "cal", s |-> t.state]]
    IN  IF t.dispwin
        THEN [g EXCEPT !.calls = Append(@, "load"),
                       !.inflight = @ \cup {Job("load", g.gens, t.state)},
                       !.pc = "wait"]
        ELSE [g EXCEPT !.pc = "read"]

\* the dispwin process j exits: a load has put its curve into the video
\* LUT, a clear has reset it.  subprocess.run returns to the caller that
\* waits for it: apply_tuning is followed by the next getch() (lines 107-110,
\* 164-165), the clear by the break (lines 117-118)
DispwinExited(t, j) ==
    LET u == [t EXCEPT !.inflight = @ \ {j}]
    IN  IF j.call = "clear"
        THEN [u EXCEPT !.lut = [kind |-> "cleared"],
                       !.pc = IF t.pc = "wait" THEN "done" ELSE @,
                       !.end = IF t.pc = "wait" THEN "cancel" ELSE @]
        ELSE [u EXCEPT !.lut = [kind |-> "curve", s |-> j.s],
                       !.loaded = @ + 1, !.latest = j.n,
                       !.pc = IF t.pc = "wait" THEN "read" ELSE @]

\* a start that waits for the first key before applying anything
TunerMainStartIdle(t) ==
    IF ~t.dispwin
    THEN [t EXCEPT !.pc = "exit1"]
    ELSE [t EXCEPT !.pc = "read"]

\* lines 88-107
TunerMainStart(t) ==
    IF ~t.dispwin
    THEN [t EXCEPT !.pc = "exit1"]
    ELSE apply_tuning(t)

\* a quit that resets the display
KeyQuitReverting(t) ==
    [t EXCEPT !.calls = Append(@, "clear"), !.lut = [kind |-> "cleared"],
              !.pc = "done", !.end = "quit"]

\* lines 112-114
KeyQuit(t) == [t EXCEPT !.pc = "done", !.end = "quit"]

\* a cancel that leaves the display alone
KeyCancelKeeping(t) == [t EXCEPT !.pc = "done", !.end = "cancel"]

\* lines 115-117: the clear is started; the break follows its exit
KeyCancel(t) ==
    [t EXCEPT !.calls = Append(@, "clear"),
              !.inflight = @ \cup {Job("clear", 0, t.state)},
              !.pc = "wait"]

\* an export that writes the neutral curve and values
KeyExportNeutral(t, raw, ts) ==
    LET name == IF Strip(raw) = "" THEN <<"LiveTune", ts>> ELSE <<Strip(raw)>>
    IN  [t EXCEPT !.exported = [kind |-> "files", typed |-> raw,
                                name |-> name, cal |-> state,
                                report |-> [f \in Fields |-> 100]],
                  !.pc = "done", !.end = "export"]

\* lines 119-152: raw is what is typed at the prompt, ts the second read for
\* the default name; cal is the state handed to generate_cal_file
KeyExport(t, raw, ts) ==
    LET name == IF Strip(raw) = "" THEN <<"LiveTune", ts>> ELSE <<Strip(raw)>>
    IN  [t EXCEPT !.exported = [kind |-> "files", typed |-> raw,
                                name |-> name, cal |-> t.state,
                                report |-> [f \in Fields |-> Hundredths(t.state[f])]],
                  !.pc = "done", !.end = "export"]

\* lines 155-162
Adjust(t, key) ==
    IF key \in AdjustKeys
    THEN LET d == IF key = Lower(key) THEN -1 ELSE 1
         IN  [t EXCEPT !.state[KeyField(key)] = FlStep(@, d),
                       !.net[KeyField(key)] = @ + d]
    ELSE t

\* a turn that applies the curve before it changes the state
KeyOtherApplyFirst(t, key) == Adjust(apply_tuning(t), key)

\* lines 154-165: what follows the if/elif chain of the terminal keys
KeyOther(t, key) == apply_tuning(Adjust(t, key))

\* a loop that takes the quit key in either case
LoopBodyQuitAnyCase(t, key, raw, ts) ==
    LET t1 == [t EXCEPT !.keys = @ + 1, !.last = key]
    IN  IF Lower(key) = "q" THEN KeyQuit(t1)
        ELSE IF key = "x" THEN KeyCancel(t1)
        ELSE IF Lower(key) = "s" THEN KeyExport(t1, raw, ts)
        ELSE KeyOther(t1, key)

\* one turn of the loop, lines 110-165
LoopBody(t, key, raw, ts) ==
    LET t1 == [t EXCEPT !.keys = @ + 1, !.last = key]
    IN  IF key = "q" THEN KeyQuit(t1)
        ELSE IF key = "x" THEN KeyCancel(t1)
        ELSE IF Lower(key) = "s" THEN KeyExport(t1, raw, ts)
        ELSE KeyOther(t1, key)

TnStep(t) == tn' = t /\ UNCHANGED <<runVars, ambVars, setVars, fastVars, curveVars, guiVars, mainVars>>

Reading == tn.pc = "read" /\ tn.keys < MaxKeys

TunerStart == tn.pc = "start" /\ TnStep(TunerMainStart(tn))

QuitKey == Reading /\ TnStep(LoopBody(tn, "q", "", Timestamp(clock)))

CancelKey == Reading /\ TnStep(LoopBody(tn, "x", "", Timestamp(clock)))

ExportKey ==
    /\ Reading
    /\ \E key \in {"s", "S"}, raw \in NameInputs :
          TnStep(LoopBody(tn, key, raw, Timestamp(clock)))

AdjustKey ==
    /\ Reading
    /\ \E key \in AdjustKeys : TnStep(LoopBody(tn, key, "", Timestamp(clock)))

\* the keys the loop ends at, and the keys it has no branch for
TerminalKeys == {"q", "x", "s", "S"}
UnboundKeys == Keys \ (AdjustKeys \cup TerminalKeys)

UnboundKey ==
    /\ Reading
    /\ \E key \in UnboundKeys :
          TnStep(LoopBody(tn, key, "", Timestamp(clock)))

\* a dispwin process of the session exits
DispwinExits ==
    /\ tn.pc # "off"
    /\ \E j \in tn.inflight : TnStep(DispwinExited(tn, j))

TuneNext ==
    \/ TunerStart
    \/ QuitKey
    \/ CancelKey
    \/ ExportKey
    \/ AdjustKey
    \/ UnboundKey
    \/ DispwinExits

(***************************************************************************)
(* The curve file (generate_cal_file).  The multipliers are taken at their *)
(* two-decimal values, in hundredths; the numbers of a row are what the    *)
(* format {:.6f} writes, in millionths.                                    *)
(***************************************************************************)

\* range(256)
CurvePoints == 256
Million == 1000000
\* gain and channel multipliers, in hundredths: negative, zero, below and
\* above 1.0
Multipliers == {-50, 0, 50, 100, 150}

\* a / b for a >= 0, b > 0, rounded to the nearest integer
RoundDiv(a, b) == (2 * a + b) \div (2 * b)

\* {x:.6f} of x = i / 255.0
InputFraction(i) == RoundDiv(i * Million, CurvePoints - 1)

\* a channel value written as computed, with no clamp
ChannelRaw(i, g, c) ==
    LET p == i * g * c
    IN  IF p <= 0 THEN -RoundDiv((-p) * 100, CurvePoints - 1)
        ELSE RoundDiv(p * 100, CurvePoints - 1)

\* {v:.6f} of v = min(1.0, max(0.0, x * s['gain'] * s[channel])): the product
\* is i * g * c / (255 * 10^4)
Channel(i, g, c) ==
    LET p == i * g * c
    IN  IF p <= 0 THEN 0
        ELSE IF p >= (CurvePoints - 1) * 10000 THEN Million
        ELSE RoundDiv(p * 100, CurvePoints - 1)

\* lines 63-68: the data rows, row i + 1 for i in range(256)
generate_cal_file(s) ==
    [n \in 1..CurvePoints |->
        <<InputFraction(n - 1),
          Channel(n - 1, s.gain, s.red),
          Channel(n - 1, s.gain, s.green),
          Channel(n - 1, s.gain, s.blue)>>]

\* no call of generate_cal_file is being examined
CvIdle == [pc |-> "off"]

CvBegin(s) == [pc |-> "args", s |-> s, rows |-> <<>>]

GenerateCal ==
    /\ cv.pc = "args"
    /\ cv' = [cv EXCEPT !.pc = "written", !.rows = generate_cal_file(cv.s)]
    /\ UNCHANGED <<runVars, ambVars, setVars, fastVars, tuneVars, guiVars, mainVars>>

CurveNext == GenerateCal

(***************************************************************************)
(* The GUI's threads (calibration_gui.py): the event thread runs the       *)
(* button commands and the callbacks scheduled with root.after; a worker   *)
(* thread runs run_calibration_process, blocking in subprocess.run while   *)
(* dispcal and then colprof execute.                                       *)
(***************************************************************************)

\* worker threads started in one session, and clicks on Cancel
MaxWorkers == 2
MaxCancels == 2

\* outcomes of check_device_connection
DeviceChecks == {"detected", "absent", "error"}

\* no GUI is running
GuiIdle == [pc |-> "off"]

\* the GUI after __init__: cal is the state check_device_connection left the
\* Start button in.  touched holds <<thread, widget>> for every change of a
\* widget or Tk variable and the thread that made it; queue holds the
\* callbacks scheduled with root.after(0, ...) and not yet run; enables
\* counts the runs of enable_calibration_controls; asked tells whether the
\* close handler that destroyed the window had asked for confirmation
GuiBegin(cal) ==
    [pc |-> "up", calibrate_button |-> cal, cancel_button |-> "disabled",
     calibration_running |-> FALSE, workers |-> <<>>, queue |-> <<>>,
     touched |-> {}, cancels |-> 0, enables |-> 0, asked |-> FALSE]

NewWorker ==
    [pc |-> "entry", invoked |-> <<>>, dispcal |-> "none", colprof |-> "none",
     cancelledInFlight |-> FALSE, result |-> "none"]

Touch(g, thread, widgets) ==
    [g EXCEPT !.touched = @ \cup {<<thread, w>> : w \in widgets}]

\* root.after(0, callback) for each callback in cbs
Marshal(g, cbs) == [g EXCEPT !.queue = @ \o cbs]

\* a failure branch that leaves the controls as they are
WorkerFailsNoCleanup(g, i, how) ==
    LET g1 == Touch(Marshal(g, <<"log", "dialog">>), "worker", {"status_var"})
    IN  [g1 EXCEPT !.workers[i].pc = "finished", !.workers[i].result = how]

\* the branches that report a failure: log_message, status_var.set, a dialog
\* through root.after, and the finally clause (lines 433-469)
WorkerFails(g, i, how) ==
    LET g1 == Touch(Marshal(g, <<"log", "dialog", "enable">>), "worker", {"status_var"})
    IN  [g1 EXCEPT !.workers[i].pc = "finished", !.workers[i].result = how]

\* lines 348-405, up to the call of subprocess.run for dispcal: parsed = the
\* float()/int() conversions of the form's fields succeed
WorkerEntry(g, i, parsed) ==
    LET g1 == Touch([g EXCEPT !.calibration_running = TRUE], "worker",
                    {"status_var", "progress_label"})
    IN  IF ~parsed
        THEN WorkerFails(g1, i, "error")
        ELSE [Marshal(g1, <<"log", "log", "progress">>)
                 EXCEPT !.workers[i].pc = "measuring"]

\* lines 405-423, 438-466: dispcal has returned (or could not be started);
\* on exit 0 colprof is started, calibration_running is not read
WorkerAfterMeasure(g, i, out) ==
    LET g1 == [g EXCEPT !.workers[i].dispcal = out,
                        !.workers[i].invoked =
                            IF Ran(out) THEN Append(@, "dispcal") ELSE @]
    IN  IF out = "ok"
        THEN [Marshal(g1, <<"log", "log", "log">>)
                 EXCEPT !.workers[i].pc = "profiling"]
        ELSE WorkerFails(g1, i, out)

\* lines 423-437, 452-469: colprof has returned (or could not be started)
WorkerAfterProfile(g, i, out) ==
    LET g1 == [g EXCEPT !.workers[i].colprof = out,
                        !.workers[i].invoked =
                            IF Ran(out) THEN Append(@, "colprof") ELSE @]
    IN  IF out = "ok"
        THEN LET g2 == Touch(Marshal(g1, <<"progress", "log", "dialog", "enable">>),
                             "worker", {"status_var"})
             IN  [g2 EXCEPT !.workers[i].pc = "finished", !.workers[i].result = "success"]
        ELSE WorkerFails(g1, i, out)

\* lines 312-329, on the event thread
check_device_connection(g, det) ==
    CASE det = "detected" ->
           Touch([g EXCEPT !.calibrate_button = "enabled"], "event",
                 {"device_status", "calibrate_button"})
      [] det = "absent" ->
           Touch([g EXCEPT !.calibrate_button = "disabled"], "event",
                 {"device_status", "calibrate_button"})
      [] OTHER -> Touch(g, "event", {"device_status"})

\* a Start command that leaves the Start button enabled
start_calibration_keeping_start(g, det) ==
    LET g1 == check_device_connection(g, det)
    IN  IF det # "detected"
        THEN Touch(g1, "event", {"messagebox"})
        ELSE Touch([g1 EXCEPT !.cancel_button = "enabled",
                              !.workers = Append(@, NewWorker)],
                   "event", {"cancel_button"})

\* lines 331-344, the Start button's command
start_calibration(g, det) ==
    LET g1 == check_device_connection(g, det)
    IN  IF det # "detected"
        THEN Touch(g1, "event", {"messagebox"})
        ELSE Touch([g1 EXCEPT !.calibrate_button = "disabled",
                              !.cancel_button = "enabled",
                              !.workers = Append(@, NewWorker)],
                   "event", {"calibrate_button", "cancel_button"})

\* lines 491-495, the Cancel button's command
cancel_calibration(g) ==
    LET g1 == [g EXCEPT !.calibration_running = FALSE,
                        !.cancels = @ + 1,
                        !.workers = [i \in DOMAIN @ |->
                            IF @[i].pc = "measuring"
                            THEN [@[i] EXCEPT !.cancelledInFlight = TRUE]
                            ELSE @[i]]]
    IN  Marshal(Touch(g1, "event", {"status_var"}), <<"log">>)

\* the event loop runs the oldest scheduled callback: _add_log_message,
\* _update_progress_gui, a messagebox, enable_calibration_controls
RunCallback(g) ==
    LET cb == Head(g.queue)
        g1 == [g EXCEPT !.queue = Tail(@)]
    IN  CASE cb = "log" -> Touch(g1, "event", {"log_text"})
          [] cb = "progress" -> Touch(g1, "event", {"progress_var", "progress_label"})
          [] cb = "dialog" -> Touch(g1, "event", {"messagebox"})
          [] OTHER ->
               Touch([g1 EXCEPT !.calibrate_button = "enabled",
                                !.cancel_button = "disabled",
                                !.enables = @ + 1],
                     "event", {"calibrate_button", "cancel_button"})

\* lines 576-582, the handler of WM_DELETE_WINDOW: ok is the answer to
\* askokcancel.  root.destroy() ends mainloop and with it main; the worker is
\* a daemon thread and ends with the process
on_closing(g, ok) ==
    IF g.calibration_running
    THEN IF ok
         THEN [cancel_calibration(Touch(g, "event", {"messagebox"}))
                  EXCEPT !.pc = "closed", !.asked = TRUE]
         ELSE Touch(g, "event", {"messagebox"})
    ELSE [g EXCEPT !.pc = "closed"]

GuiStep(g) == gui' = g /\ UNCHANGED <<runVars, ambVars, setVars, fastVars, tuneVars, curveVars, mainVars>>

GuiUp == gui.pc = "up"

StartClick ==
    /\ GuiUp /\ gui.calibrate_button = "enabled"
    /\ Len(gui.workers) < MaxWorkers
    /\ \E det \in DeviceChecks : GuiStep(start_calibration(gui, det))

CancelClick ==
    /\ GuiUp /\ gui.cancel_button = "enabled"
    /\ gui.cancels < MaxCancels
    /\ GuiStep(cancel_calibration(gui))

EventLoop ==
    /\ GuiUp /\ gui.queue # <<>>
    /\ GuiStep(RunCallback(gui))

CloseWindow ==
    /\ GuiUp
    /\ \E ok \in BOOLEAN : GuiStep(on_closing(gui, ok))

WorkerBegin(i) ==
    /\ GuiUp /\ i \in DOMAIN gui.workers /\ gui.workers[i].pc = "entry"
    /\ \E parsed \in BOOLEAN : GuiStep(WorkerEntry(gui, i, parsed))

WorkerMeasured(i) ==
    /\ GuiUp /\ i \in DOMAIN gui.workers /\ gui.workers[i].pc = "measuring"
    /\ \E out \in ToolOutcomes : GuiStep(WorkerAfterMeasure(gui, i, out))

WorkerProfiled(i) ==
    /\ GuiUp /\ i \in DOMAIN gui.workers /\ gui.workers[i].pc = "profiling"
    /\ \E out \in ToolOutcomes : GuiStep(WorkerAfterProfile(gui, i, out))

GuiNext ==
    \/ StartClick
    \/ CancelClick
    \/ EventLoop
    \/ CloseWindow
    \/ \E i \in 1..MaxWorkers : WorkerBegin(i)
    \/ \E i \in 1..MaxWorkers : WorkerMeasured(i)
    \/ \E i \in 1..MaxWorkers : WorkerProfiled(i)

(***************************************************************************)
(* The command-line entry points: calibrate_new.main, auto_calibrate.main  *)
(* and apply_profile.main, each from its first statement to its exit.      *)
(***************************************************************************)

Entries == {"new", "auto", "apply"}
\* --red/--green/--blue as argparse hands them over (type=float), counted in
\* hundredths of a percent: -5, 0, 0.04 and 10 percent
MainAdjustments == {-500, 0, 4, 1000}
\* the command lines of the calibrating entry points
MainArgSets ==
    [gamma : {None, Some(24)}, white_point : {None}, brightness : {None},
     profile_name : {None}, red : MainAdjustments, green : {0},
     blue : {-500, 0}]
\* the flags that change the path through a main: --manual (calibrate_new),
\* --apply-only (auto_calibrate), --force-condition (apply_profile)
MainFlags(e) ==
    CASE e = "new" -> [manual : BOOLEAN, apply_only : {FALSE}, force : {"none"}]
      [] e = "auto" -> [manual : {FALSE}, apply_only : BOOLEAN, force : {"none"}]
      [] OTHER -> [manual : {FALSE}, apply_only : {FALSE}, force : {"none", "low"}]

\* one element of an argument vector: a word, a number, or a flag with its
\* number attached ("-R0.950" is Arg("-R", 950))
Arg(s, n) == [s |-> s, n |-> n]
Word(s) == Arg(s, -1)
Num(n) == Arg("", n)

\* f"{1.0 + (adj / 100.0):.3f}", in thousandths
Factor(adj) == RoundDiv(10000 + adj, 10)

\* cmd.insert(-1, x)
InsertBeforeLast(cmd, x) ==
    SubSeq(cmd, 1, Len(cmd) - 1) \o <<x>> \o <<cmd[Len(cmd)]>>

\* a command that appends the factor flags after the output name
DispcalArgvAppending(e, s) ==
    LET cmd == <<Word("dispcal"), Word("-d1"), Word("-t"), Num(s.white_point),
                 Word("-g"), Num(s.gamma), Word("-yl"), Word("-q"), Word("m"),
                 Word(IF e = "new" THEN "base_name" ELSE "profile_name.cal")>>
    IN  IF s.red # 0 \/ s.green # 0 \/ s.blue # 0
        THEN cmd \o <<Arg("-R", Factor(s.red)), Arg("-G", Factor(s.green)),
                      Arg("-B", Factor(s.blue))>>
        ELSE cmd

\* calibrate_new.py:100-117 and auto_calibrate.py:242-265: the dispcal
\* command of the settings s.  "dispcal" stands for the resolved path in
\* calibrate_new; the last element is the output name
DispcalArgv(e, s) ==
    LET cmd == <<Word("dispcal"), Word("-d1"), Word("-t"), Num(s.white_point),
                 Word("-g"), Num(s.gamma), Word("-yl"), Word("-q"), Word("m"),
                 Word(IF e = "new" THEN "base_name" ELSE "profile_name.cal")>>
    IN  IF s.red # 0 \/ s.green # 0 \/ s.blue # 0
        THEN InsertBeforeLast(
                 InsertBeforeLast(
                     InsertBeforeLast(cmd, Arg("-R", Factor(s.red))),
                     Arg("-G", Factor(s.green))),
                 Arg("-B", Factor(s.blue)))
        ELSE cmd

\* what the latest attempt of the check in progress met: the device
\* inventory (system_profiler), the bus inventory (ioreg), and whether the
\* bus inventory was asked
NoProbe == [first |-> "none", second |-> "none", asked |-> FALSE]

\* check_spyder5_connected(retries) about to make its first attempt
CheckBegin(retries) ==
    [pc |-> "check", retries |-> retries, attempt |-> 0, sleeps |-> 0,
     detected |-> FALSE]

\* one pass of the loop of check_spyder5_connected in the entry point's
\* module.  calibration_utils (65-92): ioreg is run when system_profiler ran
\* without a match; an exception of system_profiler ends the attempt.
\* auto_calibrate (76-95): system_profiler only
CheckAttempt(m, d, b) ==
    IF m.entry = "new"
    THEN [m EXCEPT !.chk = AfterAttempt(@, UtilsAttemptDetects(d, b)),
                   !.probe = [first |-> d, second |-> b, asked |-> d = "nomatch"]]
    ELSE [m EXCEPT !.chk = AfterAttempt(@, AutoAttemptDetects(d)),
                   !.probe = [first |-> d, second |-> b, asked |-> FALSE]]

\* no entry point is executing
MnIdle == [pc |-> "off"]

\* apply_profile.py takes none of the calibration options
MainArgsOf(e) ==
    IF e = "apply"
    THEN {x \in MainArgSets : x.gamma = None /\ x.red = 0 /\ x.blue = 0}
    ELSE MainArgSets

\* a main after parse_args: calibrate_new and auto_calibrate begin with the
\* device check (default retries=3), apply_profile with the condition
MnBegin(e, flags, args) ==
    [pc |-> IF e = "apply" THEN "sample" ELSE "check",
     entry |-> e, flags |-> flags, args |-> args, chk |-> CheckBegin(3),
     probe |-> NoProbe,
     sampled |-> FALSE, cond |-> "none", settings |-> None,
     run |-> IdleRun("none"), argv |-> <<>>, fs |-> "none",
     applied |-> "none", exit |-> -1]

\* sys.exit(status)
Exit(m, status) == [m EXCEPT !.pc = "exited", !.exit = status]

\* a main that goes on to the sampling whatever the device check returned
MainAfterCheckContinuing(m) == [m EXCEPT !.pc = "sample", !.probe = NoProbe]

\* calibrate_new.py:222-225, auto_calibrate.py:357-360
MainAfterCheck(m) ==
    LET r == [m EXCEPT !.probe = NoProbe]
    IN  IF m.chk.detected THEN [r EXCEPT !.pc = "sample"] ELSE Exit(r, 1)

\* calibration_utils.get_ambient_light_condition from entry to return
UtilsCondition(d, b, read, v, h) ==
    LET a1 == UtilsAfterCheck(AfterAttempt(AmbBegin(RetriesOf("utils")),
                                           UtilsAttemptDetects(d, b)))
        a2 == IF a1.pc = "read" THEN AfterRead(a1, read, v) ELSE a1
        a3 == IF a2.pc = "fallback" THEN AfterFallback(a2, h) ELSE a2
    IN  a3.cond

\* auto_calibrate.get_ambient_light from entry to return
AutoCondition(read, v, h) ==
    LET a1 == AfterRead(AmbBegin(RetriesOf("auto")), read, v)
        a2 == IF a1.pc = "fallback" THEN AfterFallback(a1, h) ELSE a1
    IN  a2.cond

\* what the environment answers during one sample
SampleInputs ==
    [d : ProbeOutcomes, b : {"nomatch", "match"}, read : {"value"},
     v : {5, 10, 100}, h : {0}]
    \cup [d : ProbeOutcomes, b : {"nomatch", "match"}, read : ReadFailures,
          v : {-1}, h : {5, 8, 16, 19, 20}]

\* calibrate_new.py:228-234, auto_calibrate.py:363, apply_profile.py:30-35
MainSample(m, x) ==
    CASE m.entry = "new" ->
           IF m.flags.manual
           THEN [m EXCEPT !.cond = "medium", !.pc = "resolve"]
           ELSE [m EXCEPT !.sampled = TRUE, !.pc = "resolve",
                          !.cond = UtilsCondition(x.d, x.b, x.read, x.v, x.h)]
      [] m.entry = "auto" ->
           [m EXCEPT !.sampled = TRUE, !.pc = "resolve",
                     !.cond = AutoCondition(x.read, x.v, x.h)]
      [] OTHER ->
           IF m.flags.force # "none"
           THEN [m EXCEPT !.cond = m.flags.force, !.pc = "locate"]
           ELSE [m EXCEPT !.sampled = TRUE, !.pc = "locate",
                          !.cond = UtilsCondition(x.d, x.b, x.read, x.v, x.h)]

\* calibrate_new.py:236, auto_calibrate.py:367-371
MainResolve(m) ==
    LET s == get_calibration_settings(m.entry, m.cond, m.args)
    IN  [m EXCEPT !.settings = Some(s), !.run = IdleRun(s.name),
                  !.pc = IF m.flags.apply_only THEN "locate" ELSE "run"]

\* apply_profile.py:38-41, 47-57, 67-70 and auto_calibrate.py:383-393,
\* 403-406: every condition a sampler or --force-condition yields has a file
\* name; without an existing candidate the main exits with 1
MainLocate(m, fs) ==
    LET hit == Locate(candidates, fs)
    IN  IF hit = "none"
        THEN Exit([m EXCEPT !.fs = hit], 1)
        ELSE [m EXCEPT !.fs = hit, !.pc = "found"]

\* apply_profile.py:59-66 and auto_calibrate.py:395-402
MainApplyFound(m, found, out) ==
    LET a == IF m.entry = "apply"
             THEN apply_icc_profile(found, out) ELSE apply_profile(out)
    IN  Exit([m EXCEPT !.applied = a.res], IF a.ret THEN 0 ELSE 1)

\* calibrate_new.py:238-241: sys.exit(0) on True, sys.exit(1) on False; an
\* exception that leaves main ends the interpreter with status 1.
\* auto_calibrate.py:411-420: sys.exit(1) on failure, the end of main (status
\* 0) on success
ExitOf(e, result) == IF result = "true" THEN 0 ELSE 1

\* the run inside the main took one step to r
MainRan(m, r) ==
    IF r.pc = "done"
    THEN Exit([m EXCEPT !.run = r], ExitOf(m.entry, r.result))
    ELSE [m EXCEPT !.run = r]

\* the dispcal step of the run: the command built from the resolved
\* settings is the one that is executed
MainMeasured(m, out) ==
    MainRan([m EXCEPT !.argv = DispcalArgv(m.entry, m.settings[1])],
            IF m.entry = "new" THEN NewMeasure(m.run, out)
            ELSE AutoMeasure(m.run, out))

MainStep(m) == mn' = m /\ UNCHANGED <<runVars, ambVars, setVars, fastVars, uiVars>>

MainCheckAttempt ==
    /\ mn.pc = "check" /\ mn.chk.pc = "check"
    /\ \E d, b \in ProbeOutcomes :
         MainStep(CheckAttempt(mn, d, b))

MainChecked ==
    /\ mn.pc = "check" /\ mn.chk.pc = "checked"
    /\ MainStep(MainAfterCheck(mn))

MainSampled ==
    /\ mn.pc = "sample"
    /\ \E x \in SampleInputs : MainStep(MainSample(mn, x))

MainResolved ==
    /\ mn.pc = "resolve"
    /\ MainStep(MainResolve(mn))

MainLocated ==
    /\ mn.pc = "locate"
    /\ \E fs \in [Locations -> PathKinds] : MainStep(MainLocate(mn, fs))

MainApplied ==
    /\ mn.pc = "found"
    /\ \E found \in BOOLEAN, out \in ToolOutcomes :
         /\ (mn.entry = "apply" => out \in PathOutcomes)
         /\ MainStep(MainApplyFound(mn, found, out))

MainRunStart ==
    /\ mn.pc = "run" /\ mn.run.pc = "idle"
    /\ \E dFound, cFound \in BOOLEAN :
         MainStep(MainRan(mn, IF mn.entry = "new"
                              THEN NewStart(mn.run, clock, osName, dFound, cFound)
                              ELSE AutoStart(mn.run, clock)))

MainRunMeasure ==
    /\ mn.pc = "run" /\ mn.run.pc = "measure"
    /\ \E out \in ToolOutcomes :
         /\ (mn.entry = "new" => out \in PathOutcomes)
         /\ MainStep(MainMeasured(mn, out))

MainRunProfile ==
    /\ mn.pc = "run" /\ mn.run.pc = "profile"
    /\ \E out \in ToolOutcomes, icc \in BOOLEAN :
         /\ (mn.entry = "new" => out \in PathOutcomes)
         /\ (icc => out = "ok")
         /\ MainStep(MainRan(mn, IF mn.entry = "new"
                                 THEN NewProfile(mn.run, out, icc)
                                 ELSE AutoProfile(mn.run, out, icc)))

MainRunFinalize ==
    /\ mn.pc = "run" /\ mn.run.pc = "finalize"
    /\ \E mk, cp, rep \in BOOLEAN :
         MainStep(MainRan(mn, IF mn.entry = "new"
                              THEN NewFinalize(mn.run, mk, cp, rep)
                              ELSE AutoFinalize(mn.run)))

MainRunApply ==
    /\ mn.pc = "run" /\ mn.run.pc = "apply"
    /\ \E found \in BOOLEAN, out \in ToolOutcomes :
         /\ (mn.entry = "new" => out \in PathOutcomes)
         /\ MainStep(MainRan(mn, IF mn.entry = "new"
                                 THEN NewApply(mn.run, found, out)
                                 ELSE AutoApply(mn.run, out)))

MainNext ==
    \/ MainCheckAttempt
    \/ MainChecked
    \/ MainSampled
    \/ MainResolved
    \/ MainLocated
    \/ MainApplied
    \/ MainRunStart
    \/ MainRunMeasure
    \/ MainRunProfile
    \/ MainRunFinalize
    \/ MainRunApply

Init ==
    /\ variant \in Variants
    /\ osName \in OsNames
    /\ clock = 0
    /\ run \in {[r \in Runs |-> IdleRun(f[r])] : f \in [Runs -> Names]}
    /\ sampler = "none"
    /\ amb = AmbIdle
    /\ sr = SrIdle
    /\ fp = FpIdle
    /\ tn = TnIdle
    /\ cv = CvIdle
    /\ gui = GuiIdle
    /\ mn = MnIdle

Next == RunNext

\* the calibration runs
Spec == Init /\ [][Next]_vars

InitAmb ==
    /\ variant = "none"
    /\ osName = "posix"
    /\ clock = 0
    /\ run = [r \in Runs |-> IdleRun("none")]
    /\ sampler \in Samplers
    /\ amb = AmbBegin(RetriesOf(sampler))
    /\ sr = SrIdle
    /\ fp = FpIdle
    /\ tn = TnIdle
    /\ cv = CvIdle
    /\ gui = GuiIdle
    /\ mn = MnIdle

\* one ambient light sample
SpecAmb == InitAmb /\ [][AmbNext]_vars

InitSet ==
    /\ variant = "none"
    /\ osName = "posix"
    /\ clock = 0
    /\ run = [r \in Runs |-> IdleRun("none")]
    /\ sampler = "none"
    /\ amb = AmbIdle
    /\ sr \in [pc : {"args"}, impl : Resolvers, cond : Conditions,
                args : ArgSets, out : {None}]
    /\ fp = FpIdle
    /\ tn = TnIdle
    /\ cv = CvIdle
    /\ gui = GuiIdle
    /\ mn = MnIdle

\* one call of get_calibration_settings
SpecSet == InitSet /\ [][SetNext]_vars

InitFast ==
    /\ variant = "none"
    /\ osName = "posix"
    /\ clock = 0
    /\ run = [r \in Runs |-> IdleRun("none")]
    /\ sampler = "none"
    /\ amb = AmbIdle
    /\ sr = SrIdle
    /\ fp \in {FpBegin(i, c, fs) : i \in Appliers, c \in {"low", "medium", "high"},
                                    fs \in [Locations -> PathKinds]}
    /\ tn = TnIdle
    /\ cv = CvIdle
    /\ gui = GuiIdle
    /\ mn = MnIdle

\* one search for an existing profile and its application
SpecFast == InitFast /\ [][FastNext]_vars

InitTune ==
    /\ variant = "none"
    /\ osName = "posix"
    /\ clock = 0
    /\ run = [r \in Runs |-> IdleRun("none")]
    /\ sampler = "none"
    /\ amb = AmbIdle
    /\ sr = SrIdle
    /\ fp = FpIdle
    /\ tn \in {TnBegin(found) : found \in BOOLEAN}
    /\ cv = CvIdle
    /\ gui = GuiIdle
    /\ mn = MnIdle

\* one session of the live tuner
SpecTune == InitTune /\ [][TuneNext]_vars

InitCurve ==
    /\ variant = "none"
    /\ osName = "posix"
    /\ clock = 0
    /\ run = [r \in Runs |-> IdleRun("none")]
    /\ sampler = "none"
    /\ amb = AmbIdle
    /\ sr = SrIdle
    /\ fp = FpIdle
    /\ tn = TnIdle
    /\ cv \in {CvBegin(s) : s \in [Fields -> Multipliers]}
    /\ gui = GuiIdle
    /\ mn = MnIdle

\* one call of generate_cal_file
SpecCurve == InitCurve /\ [][CurveNext]_vars

InitGui ==
    /\ variant = "none"
    /\ osName = "posix"
    /\ clock = 0
    /\ run = [r \in Runs |-> IdleRun("none")]
    /\ sampler = "none"
    /\ amb = AmbIdle
    /\ sr = SrIdle
    /\ fp = FpIdle
    /\ tn = TnIdle
    /\ cv = CvIdle
    /\ gui \in {GuiBegin(cal) : cal \in {"enabled", "disabled"}}
    /\ mn = MnIdle

\* one session of the GUI
SpecGui == InitGui /\ [][GuiNext]_vars

\* the same with an event thread that keeps running the callbacks scheduled
\* with root.after for as long as the window is up
SpecGuiLive == InitGui /\ [][GuiNext]_vars /\ WF_vars(EventLoop)

InitMain ==
    /\ variant = "none"
    /\ osName \in OsNames
    /\ clock = 0
    /\ run = [r \in Runs |-> IdleRun("none")]
    /\ sampler = "none"
    /\ amb = AmbIdle
    /\ sr = SrIdle
    /\ fp = FpIdle
    /\ tn = TnIdle
    /\ cv = CvIdle
    /\ gui = GuiIdle
    /\ mn \in UNION {{MnBegin(e, f, a) : f \in MainFlags(e), a \in MainArgsOf(e)} :
                       e \in Entries}

\* one execution of a command-line entry point
SpecMain == InitMain /\ [][MainNext]_vars

(***************************************************************************)
(* Properties of the calibration runs (checked under Spec).                *)
(***************************************************************************)

\* C1: in every run variant, when dispcal exits non-zero the run has ended
\* with a reported failure and colprof was not invoked in it
MeasurementFailureHalts ==
    \A r \in Runs :
        run[r].dispcal = "nonzero" =>
            /\ run[r].pc = "done"
            /\ run[r].result = "false"
            /\ "MeasurementFailed" \in run[r].logged
            /\ run[r].colprof = "none"
            /\ Count(run[r].invoked, "colprof") = 0

\* a GUI run whose measurement exited non-zero
MeasurementFailureSeen ==
    \E r \in Runs :
        variant = "gui" /\ run[r].dispcal = "nonzero" /\ run[r].pc = "done"

\* C2: a run entered after another run with the same settings name has
\* returned derives a base name different from that run's, so that the
\* measurement artifact it writes is not the one the earlier run wrote
ConsecutiveRunsDistinctBaseNames ==
    \A r1, r2 \in Runs :
        ( /\ r1 \in run[r2].after
          /\ run[r1].name = run[r2].name
          /\ run[r1].result # "crash" /\ run[r2].result # "crash"
          /\ "cal" \in run[r1].wrote /\ "cal" \in run[r2].wrote )
        => BaseName(run[r1]) # BaseName(run[r2])

\* C3: two runs with the same settings name that are in progress at the
\* same time never hold the same base name
ConcurrentRunsDistinctBaseNames ==
    \A r1, r2 \in Runs :
        ( /\ r1 # r2
          /\ run[r1].pc \notin {"idle", "done"}
          /\ run[r2].pc \notin {"idle", "done"}
          /\ run[r1].name = run[r2].name )
        => BaseName(run[r1]) # BaseName(run[r2])

\* C4: a run that ended after colprof exited zero without leaving the .icc
\* artifact returned failure, logged the missing artifact and applied nothing
ArtifactMissingIsReported ==
    \A r \in Runs :
        ( /\ run[r].pc = "done" /\ run[r].result # "crash"
          /\ run[r].colprof = "ok" /\ ~run[r].icc )
        => /\ run[r].result = "false"
           /\ "ArtifactMissing" \in run[r].logged
           /\ run[r].apply = "none"

\* C5: a run reports success only when the profile applier was invoked in it
\* and succeeded
SuccessOnlyAfterApply ==
    \A r \in Runs : run[r].result = "true" => run[r].apply = "ok"

\* C6: when dispcal or colprof cannot be resolved the run fails as
\* tool-not-found with no external tool invoked and no artifact written
UnresolvedToolFailsBeforeInvocation ==
    \A r \in Runs :
        (run[r].dispcal = "notfound" \/ run[r].colprof = "notfound")
        => /\ run[r].result = "false"
           /\ "ToolNotFound" \in run[r].logged
           /\ run[r].invoked = <<>>
           /\ run[r].wrote = {}

\* C7: within one run dispcal is invoked at most once and colprof at most
\* once, whatever their exit codes
NoStageRetried ==
    \A r \in Runs :
        /\ Count(run[r].invoked, "dispcal") <= 1
        /\ Count(run[r].invoked, "colprof") <= 1

\* a run that invoked both tools, the second of which exited non-zero
FailedStageSeen ==
    \E r \in Runs :
        /\ run[r].invoked = <<"dispcal", "colprof">>
        /\ run[r].colprof = "nonzero"
        /\ run[r].pc = "done"

\* C8: a failure raised while spawning an external tool never leaves the
\* run as an unhandled exception
SpawnFailureIsHandled ==
    \A r \in Runs :
        ( \/ run[r].dispcal \in {"notfound", "oserror"}
          \/ run[r].colprof \in {"notfound", "oserror"}
          \/ run[r].apply \in {"notfound", "oserror"} )
        => run[r].result # "crash"

(***************************************************************************)
(* Properties of the ambient light sampler (checked under SpecAmb).        *)
(***************************************************************************)

\* C9: no sample raises to its caller, and a finished sample is one of low,
\* medium, high, whatever the device check and the reading ended in
SamplerAlwaysClassifies ==
    /\ ~amb.raised
    /\ amb.pc = "done" => amb.cond \in {"low", "medium", "high"}

\* a finished sample whose reading printed a number float() rejects
MalformedReadingSeen ==
    amb.pc = "done" /\ amb.read = "malformed" /\ amb.cond \in {"low", "medium", "high"}

ReadingNeverRetried ==
    /\ amb.spotread <= 1
    /\ (amb.read \in {"timeout", "noparse", "malformed"}) =>
         /\ amb.spotread = 1
         /\ amb.pc \in {"fallback", "done"}
         /\ amb.pc = "done" => amb.hour \in Hours

\* a finished sample whose one reading timed out
TimedOutReadingSeen ==
    amb.pc = "done" /\ amb.read = "timeout" /\ amb.spotread = 1 /\ amb.hour \in Hours

\* C12: a parsed lux value below 10 gives low, from 10 up to but not
\* including 100 medium, from 100 on high, and the clock's hour is not read
LuxThresholds ==
    (amb.read = "value") =>
        /\ amb.pc = "done"
        /\ amb.lux \in LuxReadings
        /\ amb.lux < 10 => amb.cond = "low"
        /\ (10 <= amb.lux /\ amb.lux < 100) => amb.cond = "medium"
        /\ amb.lux >= 100 => amb.cond = "high"
        /\ amb.hour = -1

\* a sample that read exactly 10 lux
LuxBoundarySeen ==
    amb.pc = "done" /\ amb.read = "value" /\ amb.lux = 10 /\ amb.cond = "medium"

\* C13: a sample that read no value maps the hour h to high for 6 <= h < 17,
\* medium for 17 <= h < 20 and low for every other hour of 0..23
TimeOfDayTable ==
    (amb.pc = "done" /\ amb.read # "value") =>
        /\ amb.hour \in Hours
        /\ (6 <= amb.hour /\ amb.hour < 17) => amb.cond = "high"
        /\ (17 <= amb.hour /\ amb.hour < 20) => amb.cond = "medium"
        /\ (amb.hour < 6 \/ amb.hour >= 20) => amb.cond = "low"

\* a sample estimated at hour 20, the first hour of the night
NightBoundarySeen ==
    amb.pc = "done" /\ amb.read # "value" /\ amb.hour = 20 /\ amb.cond = "low"

(***************************************************************************)
(* Properties of the settings resolver (checked under SpecSet).            *)
(***************************************************************************)

\* C14: for gamma, white_point, brightness and name the resolved value is the
\* caller's whenever the caller gave one (a zero or empty one too), and the
\* table's value of the condition when the caller gave none
OverrideAlwaysWins ==
    (sr.pc = "resolved") =>
        LET out == sr.out[1]
            base == BaseRow(sr.cond)
        IN  /\ out.gamma = IF sr.args.gamma # None
                           THEN sr.args.gamma[1] ELSE base.gamma
            /\ out.white_point = IF sr.args.white_point # None
                                 THEN sr.args.white_point[1] ELSE base.white_point
            /\ out.brightness = IF sr.args.brightness # None
                                THEN sr.args.brightness[1] ELSE base.brightness
            /\ out.name = IF sr.args.profile_name # None
                          THEN sr.args.profile_name[1] ELSE base.name

\* C15: with no override the resolved settings are the table row of the
\* condition, the medium row for an unknown condition, with adjustments 0
NoOverrideGivesBaseRow ==
    ( /\ sr.pc = "resolved"
      /\ sr.args.gamma = None /\ sr.args.white_point = None
      /\ sr.args.brightness = None /\ sr.args.profile_name = None
      /\ sr.args.red = 0 /\ sr.args.green = 0 /\ sr.args.blue = 0 )
    => LET out == sr.out[1]
       IN  /\ out.gamma = 22
           /\ out.red = 0 /\ out.green = 0 /\ out.blue = 0
           /\ sr.cond = "low" =>
                /\ out.white_point = 5500 /\ out.brightness = 80
                /\ out.name = "LowLight_Profile"
           /\ sr.cond = "high" =>
                /\ out.white_point = 6500 /\ out.brightness = 120
                /\ out.name = "HighLight_Profile"
           /\ sr.cond \notin {"low", "high"} =>
                /\ out.white_point = 6500 /\ out.brightness = 100
                /\ out.name = "MediumLight_Profile"

\* settings resolved without overrides for a condition the table lacks
UnknownConditionResolved ==
    /\ sr.pc = "resolved" /\ sr.cond = "dusk"
    /\ sr.args.gamma = None /\ sr.args.white_point = None
    /\ sr.args.brightness = None /\ sr.args.profile_name = None
    /\ sr.args.red = 0 /\ sr.args.green = 0 /\ sr.args.blue = 0
    /\ sr.out[1].name = "MediumLight_Profile"

(***************************************************************************)
(* Properties of finding and applying a profile (checked under SpecFast).  *)
(***************************************************************************)

\* C16: the search returns the first candidate that exists, in the order
\* local directory, user store, system store, returns nothing when none of
\* the three exists, and leaves the file system as it was
LocatorFirstExisting ==
    (fp.pc \in {"found", "exit0", "exit1"}) =>
        /\ fp.fs = fp.fs0
        /\ fp.fs["local"] # "absent" => fp.found = "local"
        /\ (fp.fs["local"] = "absent" /\ fp.fs["user"] # "absent") => fp.found = "user"
        /\ (fp.fs["local"] = "absent" /\ fp.fs["user"] = "absent"
              /\ fp.fs["system"] # "absent") => fp.found = "system"
        /\ (\A l \in Locations : fp.fs[l] = "absent") =>
              fp.found = "none" /\ fp.pc = "exit1"

\* a search with nothing in the local directory and the profile in both stores
UserStoreBeforeSystemSeen ==
    /\ fp.pc \in {"found", "exit0", "exit1"}
    /\ fp.fs["local"] = "absent" /\ fp.fs["user"] = "file" /\ fp.fs["system"] = "file"
    /\ fp.found = "user"

\* C17: the search never returns a directory: what it returns is the first
\* candidate that is a regular file, and nothing when no candidate is one
LocatorReturnsRegularFile ==
    (fp.pc \in {"found", "exit0", "exit1"}) =>
        /\ fp.found # "none" => fp.fs[fp.found] = "file"
        /\ fp.found = Locate(candidates, [l \in Locations |->
                                IF fp.fs[l] = "file" THEN "file" ELSE "absent"])

\* C18: an apply returns true exactly when dispwin was run and exited with
\* zero; a missing tool, an error raised or a non-zero exit give false
ApplyTrueIffExitZero ==
    (fp.pc \in {"exit0", "exit1"} /\ fp.found # "none") =>
        /\ fp.applied.ret = (fp.spawn = "ok")
        /\ fp.applied.ret => fp.applied.calls = <<"dispwin">>
        /\ (fp.pc = "exit0") = fp.applied.ret

\* auto_calibrate's applier ran dispwin, which exited non-zero
NonZeroApplySeen ==
    /\ fp.pc = "exit1" /\ fp.impl = "auto" /\ fp.found # "none"
    /\ fp.spawn = "nonzero" /\ fp.applied.calls = <<"dispwin">>
    /\ ~fp.applied.ret

\* C19: every invocation of dispwin by an applier is in install mode, and
\* that is another form than the load-only one of the tuner, which never
\* installs
ApplierInstallsTunerLoads ==
    (fp.pc \in {"exit0", "exit1"} /\ fp.applied.calls # <<>>) =>
        /\ DispwinMode(fp.applied.argv) = "install"
        /\ DispwinMode(TunerDispwinArgv) = "load"
        /\ fp.applied.argv # TunerDispwinArgv

\* C20: an apply runs dispwin at most once; when that fails the fallback is
\* attempted exactly once, and the failure is returned with guidance on how
\* to complete by hand
FailedApplyFallsBackOnce ==
    (fp.pc \in {"exit0", "exit1"} /\ fp.found # "none") =>
        /\ Count(fp.applied.calls, "dispwin") <= 1
        /\ ~fp.applied.ret =>
              /\ "FallbackAttempt" \in fp.applied.logs
              /\ fp.applied.logs \cap {"ManualGuidance", "FallbackSkipped"} # {}

(***************************************************************************)
(* Properties of the live tuner (checked under SpecTune).                  *)
(***************************************************************************)

\* C21: a keystroke that is no adjustment, export, quit or cancel key is
\* ignored: it leaves the tuner state as it was, regenerates no curve and
\* does not invoke dispwin
UnboundKeyIgnored ==
    [][ (tn.pc = "read" /\ tn'.keys = tn.keys + 1 /\ tn'.last \in UnboundKeys) =>
           /\ tn'.state = tn.state
           /\ tn'.gens = tn.gens
           /\ tn'.calls = tn.calls ]_vars

\* C22: after any key sequence from the neutral state every field equals
\* 1.00 + 0.01 * (number of its increase keys - number of its decrease keys),
\* each adjustment key having moved its own field only
AdjustmentsAddUp ==
    (tn.pc \in {"read", "done"}) =>
        \A f \in Fields : tn.state[f] = FlDecimal(tn.net[f])

\* C24: the quit key ends the session without reverting: dispwin is not
\* invoked for it or after it, no clear is ever issued, and the display keeps
\* the curve applied last
QuitKeepsCurve ==
    (tn.pc # "off" /\ tn.end = "quit") =>
        /\ tn.pc = "done" /\ tn.last = "q"
        /\ Len(tn.calls) = tn.keys
        /\ \A i \in DOMAIN tn.calls : tn.calls[i] = "load"
        /\ tn.lut = [kind |-> "curve", s |-> tn.state]

\* a session that was quit after the state had been changed
QuitAfterAdjustSeen ==
    /\ tn.pc = "done" /\ tn.end = "quit" /\ tn.keys >= 2
    /\ tn.state # state
    /\ tn.lut = [kind |-> "curve", s |-> tn.state]

\* C25: the cancel key invokes dispwin's clear exactly once, as the last
\* invocation of the session, and the loop ends
CancelClearsOnce ==
    (tn.pc # "off" /\ tn.end = "cancel") =>
        /\ tn.pc = "done" /\ tn.last = "x"
        /\ Count(tn.calls, "clear") = 1
        /\ Len(tn.calls) = tn.keys + 1
        /\ tn.calls[Len(tn.calls)] = "clear"
        /\ tn.lut = [kind |-> "cleared"]

\* a session that was cancelled after the state had been changed
CancelAfterAdjustSeen ==
    /\ tn.pc = "done" /\ tn.end = "cancel" /\ tn.keys >= 2
    /\ tn.state # state
    /\ tn.calls[Len(tn.calls)] = "clear"

\* C26: the export key writes the curve and the four values of the current
\* state, replaces a blank name by the timestamped default, leaves the state
\* as it was and ends the loop without invoking dispwin again
ExportWritesCurrentState ==
    (tn.pc # "off" /\ tn.end = "export") =>
        /\ tn.pc = "done" /\ tn.last \in {"s", "S"}
        /\ tn.exported.cal = tn.state
        /\ \A f \in Fields : tn.exported.report[f] = 100 + tn.net[f]
        /\ tn.exported.typed \in {"", "  "} =>
              tn.exported.name = <<"LiveTune", Timestamp(clock)>>
        /\ tn.exported.typed \in {"MyTune", " MyTune "} =>
              tn.exported.name = <<"MyTune">>
        /\ tn.lut = [kind |-> "curve", s |-> tn.state]
        /\ tn.tmp = [kind |-> "cal", s |-> tn.state]
        /\ Len(tn.calls) = tn.keys
        /\ \A i \in DOMAIN tn.calls : tn.calls[i] = "load"

\* an export of a changed state under a blank name
BlankNameExportSeen ==
    /\ tn.pc = "done" /\ tn.end = "export"
    /\ tn.exported.typed = "  "
    /\ tn.exported.name[1] = "LiveTune"
    /\ tn.state # state
    /\ tn.exported.cal = tn.state

\* C27: the tuner starts reading keys with all four fields at 1.0 and the
\* neutral curve generated and applied once, before any key is read
StartsNeutralAndApplied ==
    /\ (tn.pc = "start") => (tn.state = state /\ tn.calls = <<>>)
    /\ (tn.pc = "read" /\ tn.keys = 0) =>
          /\ \A f \in Fields : tn.state[f] = Fl(0, 0)
          /\ tn.gens = 1
          /\ tn.calls = <<"load">>
          /\ tn.tmp = [kind |-> "cal", s |-> state]
          /\ tn.lut = [kind |-> "curve", s |-> state]
    /\ (tn.pc # "off" /\ tn.keys > 0) => (tn.calls # <<>> /\ tn.calls[1] = "load")

\* the tuner waiting for its first key
FirstReadSeen ==
    tn.pc = "read" /\ tn.keys = 0 /\ tn.calls = <<"load">> /\ tn.state = state

CurveIsClamped ==
    (cv.pc = "written") =>
        /\ Len(cv.rows) = 256
        /\ \A n \in 1..Len(cv.rows) :
              /\ cv.rows[n][1] = ((n - 1) * 2000000 + 255) \div 510
              /\ n > 1 => cv.rows[n - 1][1] < cv.rows[n][1]
              /\ \A j \in 2..4 :
                    LET c == IF j = 2 THEN cv.s.red
                             ELSE IF j = 3 THEN cv.s.green ELSE cv.s.blue
                        p == (n - 1) * cv.s.gain * c
                        v == cv.rows[n][j]
                    IN  /\ 0 <= v /\ v <= 1000000
                        /\ p <= 0 => v = 0
                        /\ p >= 2550000 => v = 1000000
                        /\ (0 < p /\ p < 2550000) => v = (200 * p + 255) \div 510

\* a curve written for a gain above 1 with one channel above 1, one at 0 and
\* one negative
ClampedCurveSeen ==
    /\ cv.pc = "written"
    /\ cv.s.gain = 150 /\ cv.s.red = 150 /\ cv.s.green = 0 /\ cv.s.blue = -50
    /\ cv.rows[256] = <<1000000, 1000000, 0, 0>>

(***************************************************************************)
(* Properties of the GUI's threads (checked under SpecGui).                *)
(***************************************************************************)

\* C29: every change of a widget or Tk variable that the worker causes is
\* made by the event thread; the worker thread changes none itself
WorkerNeverTouchesUi ==
    (gui.pc = "up") => \A p \in gui.touched : p[1] = "event"

\* C30: when Cancel is clicked while dispcal is executing, dispcal is left to
\* run to its end and the worker, seeing the request at the stage boundary,
\* does not start colprof
CancelStopsBeforeProfiling ==
    (gui.pc = "up") =>
        \A i \in DOMAIN gui.workers :
            gui.workers[i].cancelledInFlight =>
                /\ gui.workers[i].pc # "profiling"
                /\ gui.workers[i].colprof = "none"
                /\ gui.workers[i].pc = "finished" => gui.workers[i].dispcal # "none"

(***************************************************************************)
(* Entry points: exit status, device check, measurement command.           *)
(***************************************************************************)

\* everything the entry point is there to do has succeeded: for a
\* calibration the device was found, dispcal and colprof exited with zero,
\* the .icc file is there and the apply succeeded; for apply_profile and
\* --apply-only a profile was found and applied
FullSuccess(m) ==
    IF m.entry = "apply" \/ m.flags.apply_only
    THEN m.fs # "none" /\ m.applied = "ok"
    ELSE /\ m.chk.detected
         /\ m.run.dispcal = "ok" /\ m.run.colprof = "ok"
         /\ m.run.icc /\ m.run.apply = "ok"

\* C31: an entry point that has exited has exited with status 0 when
\* everything succeeded (device, tools, measurement, profiling, artifact,
\* apply; for apply_profile: profile found and applied) and with status 1 in
\* every other case
ExitStatusTellsFullSuccess ==
    mn.pc = "exited" => mn.exit = (IF FullSuccess(mn) THEN 0 ELSE 1)

\* C32: when the device check of a calibrating entry point has returned
\* false, after all of its attempts, the entry point exits with status 1
\* and has neither sampled the ambient light nor resolved settings nor
\* started dispcal or colprof
MissingDeviceIsFatal ==
    (/\ mn.pc \notin {"off", "check"}
     /\ mn.entry \in {"new", "auto"}
     /\ ~mn.chk.detected)
    => /\ mn.pc = "exited" /\ mn.exit = 1
       /\ mn.chk.attempt = mn.chk.retries
       /\ ~mn.sampled /\ mn.cond = "none"
       /\ mn.settings = None
       /\ mn.run.pc = "idle" /\ mn.run.invoked = <<>>
       /\ mn.argv = <<>>

MissingDeviceExitSeen ==
    /\ mn.pc = "exited"
    /\ mn.entry = "new"
    /\ ~mn.chk.detected /\ mn.chk.attempt = 3 /\ mn.chk.sleeps = 2
    /\ mn.exit = 1

\* C33: the device check makes at most `retries` attempts, returns true at
\* the first attempt in which the device inventory or the bus inventory
\* names a sensor, asks the bus inventory in every attempt in which the
\* device inventory gave no match, sleeps between attempts only, and
\* returns false after `retries` attempts without a detection
CheckAsksBothInventories ==
    mn.pc = "check" =>
        LET c == mn.chk
            p == mn.probe
        IN  /\ c.attempt <= c.retries
            /\ (p # NoProbe =>
                  /\ ((p.first = "match" \/ p.second = "match") <=> c.detected)
                  /\ (p.first # "match" => p.asked))
            /\ (c.detected => c.pc = "checked" /\ c.sleeps = c.attempt - 1)
            /\ (~c.detected /\ c.pc = "check" => c.sleeps = c.attempt)
            /\ (~c.detected /\ c.pc = "checked" =>
                  c.attempt = c.retries /\ c.sleeps = c.retries - 1)

\* the numbered flags of a command
FactorFlags(argv) == {i \in DOMAIN argv : argv[i].s \in {"-R", "-G", "-B"}}

\* x thousandths is 1 + adj/100 to three decimals (adj in hundredths of a
\* percent)
IsFactorOf(x, adj) == 10 * x - 5 <= 10000 + adj /\ 10000 + adj <= 10 * x + 5

\* C34: the dispcal command that is executed has the -R, -G and -B factors
\* exactly when one of the three adjustments is not zero; then all three are
\* there, each 1 + adjustment/100 to three decimals, directly before the
\* output name, which stays last; the white point follows -t and the gamma
\* follows -g, so the low row without overrides gives -t 5500 -g 2.2 and no
\* factor
FactorFlagsIffAdjusted ==
    (mn.pc # "off" /\ mn.argv # <<>>) =>
        LET a == mn.argv
            s == mn.settings[1]
            n == Len(a)
            adjusted == s.red # 0 \/ s.green # 0 \/ s.blue # 0
        IN  /\ a[n].s \in {"base_name", "profile_name.cal"}
            /\ a[3] = Word("-t") /\ a[4] = Num(s.white_point)
            /\ a[5] = Word("-g") /\ a[6] = Num(s.gamma)
            /\ (adjusted <=> FactorFlags(a) # {})
            /\ (adjusted =>
                  /\ FactorFlags(a) = {n - 3, n - 2, n - 1}
                  /\ a[n - 3].s = "-R" /\ IsFactorOf(a[n - 3].n, s.red)
                  /\ a[n - 2].s = "-G" /\ IsFactorOf(a[n - 2].n, s.green)
                  /\ a[n - 1].s = "-B" /\ IsFactorOf(a[n - 1].n, s.blue))
            /\ (mn.cond = "low" /\ mn.args.gamma = None /\ ~adjusted =>
                  a[4].n = 5500 /\ a[6].n = 22 /\ FactorFlags(a) = {})

FactorFlagsPassedSeen ==
    /\ mn.pc # "off" /\ mn.entry = "new" /\ mn.run.dispcal = "ok"
    /\ mn.args.red = -500 /\ mn.args.blue = 0
    /\ Len(mn.argv) = 13
    /\ mn.argv[10] = Arg("-R", 950)
    /\ mn.argv[11] = Arg("-G", 1000)
    /\ mn.argv[12] = Arg("-B", 1000)
    /\ mn.argv[13] = Word("base_name")

(***************************************************************************)
(* The tuner's dispwin processes and the curve on the display.             *)
(***************************************************************************)

\* C35: the tuner's applies are sequential: at most one dispwin process of
\* the session is running at any time, a key is read only when none is, and
\* the loads exit in the order of the keys that caused them (the k-th load
\* to exit is of the k-th curve generated, one per key read so far and one
\* for the start)
AppliesAreSequential ==
    tn.pc # "off" =>
        /\ Cardinality(tn.inflight) <= 1
        /\ (tn.inflight # {} <=> tn.pc = "wait")
        /\ tn.latest = tn.loaded
        /\ (tn.pc = "read" => tn.gens = tn.keys + 1 /\ tn.loaded = tn.gens)

\* the apply caused by the second key is running and nothing else is
SecondApplyWaitingSeen ==
    /\ tn.pc = "wait" /\ tn.keys = 2 /\ tn.loaded = 2
    /\ tn.inflight = {Job("load", 3, tn.state)}
    /\ tn.state # state

SuccessHasArchiveAndReport ==
    \A r \in Runs :
        run[r].result = "true" => {"archive", "report"} \subseteq run[r].wrote

(***************************************************************************)
(* The GUI's running flag, its workers and its controls.                   *)
(***************************************************************************)

\* the workers that are past line 348 and have not reached the finally
Executing(g) == {i \in DOMAIN g.workers : g.workers[i].pc \in {"measuring", "profiling"}}

\* C37: calibration_running is true exactly while a worker is executing,
\* and false again once it has finished, so that the close handler has asked
\* for confirmation only with a calibration in progress
RunningFlagTracksWorker ==
    /\ (gui.pc = "up") => (gui.calibration_running <=> Executing(gui) # {})
    /\ (gui.pc = "closed" /\ gui.asked) => Executing(gui) # {}

\* C38: at most one worker is between its start and its final cleanup at
\* any time, whatever the order of Start, Cancel, callbacks and tool exits,
\* so at most one has dispcal or colprof running
OneWorkerInFlight ==
    gui.pc # "off" =>
        /\ Cardinality({i \in DOMAIN gui.workers :
                           gui.workers[i].pc # "finished"}) <= 1
        /\ Cardinality(Executing(gui)) <= 1
        /\ \A i \in DOMAIN gui.workers :
              i < Len(gui.workers) => gui.workers[i].pc = "finished"

\* a second worker running dispcal after the first has finished
SecondWorkerAfterFirstSeen ==
    /\ gui.pc = "up" /\ Len(gui.workers) = 2
    /\ gui.workers[1].pc = "finished"
    /\ gui.workers[2].pc = "measuring"
    /\ gui.cancels > 0

\* the latest worker has finished and enable_calibration_controls has not
\* yet run for it
AwaitsControls ==
    /\ gui.pc = "up" /\ gui.workers # <<>>
    /\ gui.workers[Len(gui.workers)].pc = "finished"
    /\ gui.enables < Len(gui.workers)

\* C39: after every run of a worker, whatever its outcome, the Start button
\* is enabled and the Cancel button disabled at some later time, as long as
\* the window is up and the event thread runs the scheduled callbacks
ControlsRestoredAfterRun ==
    AwaitsControls ~>
        (\/ gui.pc = "closed"
         \/ (/\ gui.calibrate_button = "enabled"
             /\ gui.cancel_button = "disabled"
             /\ gui.enables = Len(gui.workers)))

\* the controls restored after a run that failed to start dispcal
ControlsRestoredSeen ==
    /\ gui.pc = "up" /\ Len(gui.workers) = 1
    /\ gui.workers[1].result = "notfound"
    /\ gui.enables = 1
    /\ gui.calibrate_button = "enabled" /\ gui.cancel_button = "disabled"

====
